---- MODULE Spec2Model ----
(***************************************************************************)
(* Model of the Marketing Agent Factory content service                    *)
(* (src/agents/app.py, src/agents/content_agent.py) and of the feedback    *)
(* loop of src/ai-agent/generator.py.                                      *)
(*                                                                         *)
(* Conventions                                                             *)
(*  - A Python float is a record [nan, t]: t is the value in tenths        *)
(*    (7.0 is F(70), 8.5 is F(85)); nan marks float("nan"), on which every *)
(*    comparison is false.                                                 *)
(*  - A text is a sequence of lines.  A line is a record [k, n, t]: k is   *)
(*    the label the stripped line starts with ("" when it starts with      *)
(*    none), n the number of a numbered item line (0 otherwise), t the     *)
(*    words that follow the label or the number.                           *)
(*  - A Python dict is a TLA+ record or function with the same keys.       *)
(*  - Wall-clock fields (generationTimeSeconds, optimizationTime, ...) and *)
(*    logging are left out: nothing the handlers decide reads them.        *)
(***************************************************************************)
EXTENDS Integers, Sequences, FiniteSets, TLC

VARIABLES content_agent, req, ev, loop, reqs

vars == <<content_agent, req, ev, loop, reqs>>

(***************************************************************************)
(* Bounds of the model.                                                    *)
(***************************************************************************)
MaxLines == 3

MaxItems == 2
\* The largest max_iterations a /generate/loop request asks for.
MaxIterations == 3
\* The number of requests the server handles at the same time.
NumHandlers == 2

(***************************************************************************)
(* Floats.                                                                 *)
(***************************************************************************)
F(t) == [nan |-> FALSE, t |-> t]

NaN == [nan |-> TRUE, t |-> 0]

FloatLt(a, b) == ~a.nan /\ ~b.nan /\ a.t < b.t

FloatLe(a, b) == ~a.nan /\ ~b.nan /\ a.t <= b.t

FloatSub(a, b) == IF a.nan \/ b.nan THEN NaN ELSE F(a.t - b.t)

\* float(word): the words Python's float() accepts, with their values; a
\* word outside the table raises ValueError.
FloatTable ==
    ("-3" :> F(-30)) @@ ("0" :> F(0)) @@ ("0.5" :> F(5)) @@ ("1" :> F(10)) @@
    ("6.5" :> F(65)) @@ ("6.9" :> F(69)) @@ ("7" :> F(70)) @@ ("8" :> F(80)) @@
    ("8.4" :> F(84)) @@ ("8.5" :> F(85)) @@ ("9" :> F(90)) @@ ("10" :> F(100)) @@
    ("15" :> F(150)) @@ ("nan" :> NaN)

(***************************************************************************)
(* Lines of the model's free text.                                         *)
(***************************************************************************)
Line(k, n, t) == [k |-> k, n |-> n, t |-> t]

StartsWith(line, label) == line.k = label

\* Faulty variant: any numbered line counts as an item.
StartsWithAnyItemNumber(line) == line.k = "item"

\* line.startswith(("1.", "2.", "3."))
StartsWithItemNumber(line) == line.k = "item" /\ line.n \in {1, 2, 3}

\* "if line": the stripped line is not empty
NonEmptyLine(line) == line.k # "" \/ line.t # <<>>

\* Convert a criterion name to camelCase (content_agent.py 665-668), on the
\* names the evaluation prompt asks for.
CamelCase ==
    ("Brand Voice" :> "brandVoice") @@ ("Platform Fit" :> "platformFit") @@
    ("Key Messages" :> "keyMessages") @@ ("Clarity" :> "clarity") @@
    ("Overall Quality" :> "overallQuality")

(***************************************************************************)
(* ContentAgent._parse_evaluation_response                                 *)
(***************************************************************************)
\* Faulty variant: the parser starts from the fallback's score.
ParseDefaultsLowScore ==
    [score |-> F(65),
     criteriaScores |-> <<>>,
     strengths |-> <<>>,
     improvements |-> <<>>,
     needsImprovement |-> FALSE,
     optimizationGuidance |-> <<>>]

\* Lines 608-615
ParseDefaults ==
    [score |-> F(70),
     criteriaScores |-> <<>>,
     strengths |-> <<>>,
     improvements |-> <<>>,
     needsImprovement |-> FALSE,
     optimizationGuidance |-> <<>>]

\* Faulty variant: the score word is converted with int().
ParseScoreLineInt(e, line) ==
    IF Len(line.t) > 0 /\ line.t[1] \in {"-3", "0", "1", "7", "8", "9", "10", "15"}
    THEN [e EXCEPT !.score = FloatTable[line.t[1]]]
    ELSE e

\* OVERALL_SCORE line: float(score_text.split()[0]) inside a bare
\* try/except; on IndexError or ValueError the score is left as it was.
ParseScoreLine(e, line) ==
    IF Len(line.t) > 0 /\ line.t[1] \in DOMAIN FloatTable
    THEN [e EXCEPT !.score = FloatTable[line.t[1]]]
    ELSE e

\* "- Name: 8/10 - assessment" under CRITERIA_SCORES: line.t is
\* <<name, score word>>; a score float() rejects is skipped.
ParseCriteriaLine(cs, line) ==
    IF Len(line.t) = 2 /\ line.t[1] \in DOMAIN CamelCase
       /\ line.t[2] \in DOMAIN FloatTable
    THEN (CamelCase[line.t[1]] :> FloatTable[line.t[2]]) @@ cs
    ELSE cs

\* One iteration of the "for line in lines" loop on the parser state
\* st = [e, section, cs].
ParseLine(st, line) ==
    IF StartsWith(line, "CRITERIA_SCORES:")
    THEN [st EXCEPT !.section = "criteria"]
    ELSE IF StartsWith(line, "OVERALL_SCORE:")
    THEN [st EXCEPT !.section = "score", !.e = ParseScoreLine(st.e, line)]
    ELSE IF StartsWith(line, "STRENGTHS:")
    THEN [st EXCEPT !.section = "strengths"]
    ELSE IF StartsWith(line, "IMPROVEMENTS:")
    THEN [st EXCEPT !.section = "improvements"]
    ELSE IF StartsWith(line, "NEEDS_OPTIMIZATION:")
    THEN [st EXCEPT !.section = "needs_optimization",
                    !.e.needsImprovement = (line.t = <<"YES">>)]
    ELSE IF StartsWith(line, "OPTIMIZATION_GUIDANCE:")
    THEN [st EXCEPT !.section = "optimization_guidance",
                    !.e.optimizationGuidance =
                        IF line.t = <<>> THEN <<>> ELSE <<Line("", 0, line.t)>>]
    ELSE IF st.section = "criteria" /\ StartsWith(line, "-")
    THEN [st EXCEPT !.cs = ParseCriteriaLine(st.cs, line)]
    ELSE IF st.section = "strengths" /\ StartsWithItemNumber(line)
    THEN IF line.t # <<>>
         THEN [st EXCEPT !.e.strengths = Append(@, line.t)]
         ELSE st
    ELSE IF st.section = "improvements" /\ StartsWithItemNumber(line)
    THEN IF line.t # <<>>
         THEN [st EXCEPT !.e.improvements = Append(@, line.t)]
         ELSE st
    ELSE IF st.section = "optimization_guidance" /\ NonEmptyLine(line)
    THEN [st EXCEPT !.e.optimizationGuidance = Append(@, line)]
    ELSE st

RECURSIVE ParseLines(_, _)
ParseLines(st, lines) ==
    IF lines = <<>> THEN st
    ELSE ParseLines(ParseLine(st, Head(lines)), Tail(lines))

\* Faulty variant: the score does not force needsImprovement.
ParseFinishKeepsFlag(st) == [st.e EXCEPT !.criteriaScores = st.cs]

\* After the loop: criteria scores are stored, and a score below 7 forces
\* needsImprovement.
ParseFinish(st) ==
    [st.e EXCEPT !.criteriaScores = st.cs,
                 !.needsImprovement = @ \/ FloatLt(st.e.score, F(70))]

_parse_evaluation_response(evaluation_text) ==
    ParseFinish(ParseLines([e |-> ParseDefaults, section |-> "", cs |-> <<>>],
                           evaluation_text))

(***************************************************************************)
(* What a call of self.model.generate_content can do: return a response    *)
(* with text, return a response without candidates, or raise.              *)
(***************************************************************************)
None == <<>>

Some(x) == <<x>>

NoExc == [type |-> "", msg |-> ""]

Exc(type, msg) == [type |-> type, msg |-> msg]

TextOutcome(text) == [kind |-> "text", text |-> text, exc |-> NoExc]

NoCandidates == [kind |-> "no_candidates", text |-> <<>>, exc |-> NoExc]

Raises(exc) == [kind |-> "raise", text |-> <<>>, exc |-> exc]

\* Exceptions the client library can raise from a call: an API error, and
\* one that is a ValueError.
ModelErrors ==
    {Exc("Exception", "503 model overloaded"),
     Exc("ValueError", "response blocked")}

FailureOutcomes == {NoCandidates} \cup {Raises(x) : x \in ModelErrors}

\* response.candidates[0] on an empty list
IndexError == Exc("IndexError", "list index out of range")

(***************************************************************************)
(* ContentAgent._evaluate_content: the try/except around the model call    *)
(* and the parser.                                                         *)
(***************************************************************************)
\* Faulty variant: the fallback is the parser's neutral defaults.
DefaultEvaluationNeutral(e) ==
    [rawEvaluation |-> <<Line("", 0, <<"Evaluation failed:", e.msg>>)>>]
    @@ ParseDefaults

\* Faulty variant: the fallback has the low score but nothing to improve.
DefaultEvaluationWithoutImprovements(e) ==
    [DefaultEvaluationNeutral(e) EXCEPT !.score = F(65), !.needsImprovement = TRUE]

\* Lines 359-378: the Evaluation returned when the model call or the parser
\* raised.
DefaultEvaluation(e) ==
    [score |-> F(65),
     criteriaScores |->
        [c \in {"brandVoice", "platformFit", "keyMessages", "audienceEngagement",
                "clarity", "callToAction", "overallQuality"} |-> F(65)],
     strengths |-> << <<"Content generated successfully">> >>,
     improvements |-> << <<"Refine messaging to better match brand voice">>,
                         <<"Improve", "clarity", "for target audience">> >>,
     needsImprovement |-> TRUE,
     optimizationGuidance |->
        <<Line("", 0,
               <<"Revise to better capture the brand voice and clarify messaging">>)>>,
     rawEvaluation |-> <<Line("", 0, <<"Evaluation failed:", e.msg>>)>>]

\* Faulty variant: only the first two lines of the text are kept as rawEvaluation.
EvaluateContentTruncatedRaw(outcome) ==
    IF outcome.kind = "text"
    THEN [rawEvaluation |->
            SubSeq(outcome.text, 1, IF Len(outcome.text) < 2 THEN Len(outcome.text) ELSE 2)]
         @@ _parse_evaluation_response(outcome.text)
    ELSE IF outcome.kind = "no_candidates"
    THEN DefaultEvaluation(IndexError)
    ELSE DefaultEvaluation(outcome.exc)

_evaluate_content(outcome) ==
    IF outcome.kind = "text"
    THEN [rawEvaluation |-> outcome.text] @@ _parse_evaluation_response(outcome.text)
    ELSE IF outcome.kind = "no_candidates"
    THEN DefaultEvaluation(IndexError)
    ELSE DefaultEvaluation(outcome.exc)

(***************************************************************************)
(* Plain text (content, optimizer responses): a sequence of line strings.  *)
(***************************************************************************)
RECURSIVE StripLeft(_)
StripLeft(lines) ==
    IF lines # <<>> /\ Head(lines) = "" THEN StripLeft(Tail(lines)) ELSE lines

RECURSIVE StripRight(_)
StripRight(lines) ==
    IF lines # <<>> /\ lines[Len(lines)] = ""
    THEN StripRight(SubSeq(lines, 1, Len(lines) - 1))
    ELSE lines

\* str.strip() on a text: leading and trailing blank lines go.
Strip(lines) == StripRight(StripLeft(lines))

\* The line token of a code fence (three backquotes).
Fence == "[fence]"

\* Lines l with: any(marker in l.upper() for marker in [...])
Markers == {"OPTIMIZED CONTENT:", "Improved content:"}

(***************************************************************************)
(* ContentAgent._optimize_content                                          *)
(***************************************************************************)
\* Faulty variant: the early return is missing.
NothingToOptimizeNever(evaluation) == FALSE

\* Lines 385-389: nothing to improve, so no model call is made.
NothingToOptimize(evaluation) ==
    evaluation.improvements = <<>> /\ evaluation.optimizationGuidance = <<>>

\* Lines 466-495: split the model's answer into reasoning and content.
SplitOptimizerResponse(full_response, optimization_type) ==
    LET fences == {i \in 1..Len(full_response) : full_response[i] = Fence}
        marks == {i \in 1..Len(full_response) : full_response[i] \in Markers}
        Min(S) == CHOOSE i \in S : \A j \in S : i <= j
    IN  IF Cardinality(fences) >= 2
        THEN LET f1 == Min(fences)
                 f2 == Min(fences \ {f1})
             IN  [content |-> Strip(SubSeq(full_response, f1 + 1, f2 - 1)),
                  reasoning |-> Strip(SubSeq(full_response, 1, f1 - 1))]
        ELSE IF marks # {} /\ Min(marks) > 1
        THEN [content |-> Strip(SubSeq(full_response, Min(marks) + 1,
                                       Len(full_response))),
              reasoning |-> Strip(SubSeq(full_response, 1, Min(marks) - 1))]
        ELSE [content |-> Strip(full_response),
              reasoning |-> <<IF optimization_type = "full"
                              THEN "Full optimization performed"
                              ELSE "Targeted optimization performed">>]

\* Faulty variant: a failed optimization returns empty content.
OptimizeContentEmptyOnFailure(original_content, outcome, optimization_type) ==
    IF outcome.kind = "text"
    THEN SplitOptimizerResponse(outcome.text, optimization_type)
    ELSE [content |-> <<>>,
          reasoning |-> <<"Optimization failed:",
                          IF outcome.kind = "no_candidates"
                          THEN IndexError.msg ELSE outcome.exc.msg>>]

\* Lines 462-500: the try/except around the model call.
_optimize_content(original_content, outcome, optimization_type) ==
    IF outcome.kind = "text"
    THEN SplitOptimizerResponse(outcome.text, optimization_type)
    ELSE [content |-> original_content,
          reasoning |-> <<"Optimization failed:",
                          IF outcome.kind = "no_candidates"
                          THEN IndexError.msg ELSE outcome.exc.msg>>]

(***************************************************************************)
(* ContentAgent._generate_suggestions                                      *)
(***************************************************************************)
Mentions(improvements, keyword) ==
    \E i \in 1..Len(improvements) :
        \E j \in 1..Len(improvements[i]) : improvements[i][j] = keyword

_generate_suggestions(evaluation, optimization_performed) ==
    LET score == evaluation.score
        s1 == IF optimization_performed
              THEN <<"Content has been optimized based on expert evaluation">>
              ELSE <<>>
        s2 == IF ~score.nan /\ score.t >= 85
              THEN <<"This high-quality content is ready for immediate use">>
              ELSE IF ~score.nan /\ score.t >= 70
              THEN <<"Consider minor refinements before publishing">>
              ELSE <<"Review the optimized content before publishing">>
        s3 == IF Mentions(evaluation.improvements, "engagement")
              THEN <<"Add interactive elements like questions or polls">>
              ELSE <<>>
        s4 == IF Mentions(evaluation.improvements, "call to action")
              THEN <<"Strengthen the call-to-action with urgency or incentives">>
              ELSE <<>>
        s5 == IF Mentions(evaluation.improvements, "clarity")
              THEN <<"Simplify language for better readability">>
              ELSE <<>>
        s6 == IF ~score.nan /\ score.t >= 80
              THEN <<"Consider A/B testing this high-quality content">>
              ELSE <<>>
        all == s1 \o s2 \o s3 \o s4 \o s5 \o s6
    IN  SubSeq(all, 1, IF Len(all) < 3 THEN Len(all) ELSE 3)

(***************************************************************************)
(* The content agent (app.py 31-37, ContentAgent.__init__): None when      *)
(* construction raised, else the two thresholds read from the environment. *)
(***************************************************************************)
DefaultLow == 70

DefaultHigh == 85

NoAgent ==
    [initialized |-> FALSE, low_quality_threshold |-> F(DefaultLow),
     high_quality_threshold |-> F(DefaultHigh)]

Agent(low, high) ==
    [initialized |-> TRUE, low_quality_threshold |-> low,
     high_quality_threshold |-> high]

DefaultAgent == Agent(F(DefaultLow), F(DefaultHigh))

\* LOW_QUALITY_THRESHOLD / HIGH_QUALITY_THRESHOLD settings of the environment:
\* the defaults, a wider band, and a setting with low above high (the
\* values are read without any check).
ThresholdConfigs ==
    {<<F(DefaultLow), F(DefaultHigh)>>, <<F(60), F(90)>>, <<F(90), F(85)>>}

(***************************************************************************)
(* Request bodies: the parsed JSON value, null or an object.               *)
(***************************************************************************)
FieldValues ==
    [contentType |-> "social_post", brandVoice |-> "professional", topic |-> "x",
     platform |-> "twitter", content |-> "Buy now"]

NullBody == [null |-> TRUE, d |-> <<>>]

Body(keys) == [null |-> FALSE, d |-> [k \in keys |-> FieldValues[k]]]

\* "not data"
Falsy(data) == data.null \/ DOMAIN data.d = {}

Has(data, key) == ~data.null /\ key \in DOMAIN data.d

\* data.get(key, default)
Get(data, key, default) == IF Has(data, key) THEN data.d[key] ELSE default

required_fields == <<"contentType", "brandVoice", "topic">>

\* [field for field in required_fields if field not in data]
MissingFields(data) ==
    LET Absent(f) == ~Has(data, f) IN SelectSeq(required_fields, Absent)

GenerateBodies ==
    {NullBody} \cup
    {Body(K) : K \in SUBSET {"contentType", "brandVoice", "topic", "platform"}}

EvaluateBodies == {NullBody} \cup {Body(K) : K \in SUBSET {"content", "contentType"}}

(***************************************************************************)
(* The state of one request: the handler's position (pc), the locals of    *)
(* generate_content, the model calls made so far and the response.         *)
(***************************************************************************)
NewRequest(endpoint, data) ==
    [pc |-> "received", endpoint |-> endpoint, data |-> data,
     initial_content |-> <<>>, evaluation |-> None, strategy |-> "none",
     optimization_performed |-> FALSE, optimization_type |-> "none",
     optimized_content |-> <<>>, optimization_details |-> None,
     optimized_evaluation |-> None, calls |-> <<>>, resp |-> None]

IdleRequest == [NewRequest("", NullBody) EXCEPT !.pc = "idle"]

\* return jsonify(body), status
Respond(r, status, body) ==
    [r EXCEPT !.pc = "done", !.resp = Some([status |-> status, body |-> body])]

\* self.model.generate_content(prompt) is entered; the handler waits at pc.
\* calls records each model call: the kind of prompt, the content the
\* prompt carries and, once the call has returned, how it ended.
CallModel(r, pc, prompt, content) ==
    [r EXCEPT !.pc = pc,
              !.calls = Append(@, [prompt |-> prompt, content |-> content,
                                   outcome |-> "pending"])]

\* The pending model call ends with `outcome`.
Returned(r, outcome) == [r EXCEPT !.calls[Len(r.calls)].outcome = outcome.kind]

(***************************************************************************)
(* ContentAgent.generate_content, steps 3 and 4 and the result.            *)
(***************************************************************************)
\* Faulty variant: the low threshold compared with <=.
DecideLowInclusive(score, improvements, low, high) ==
    IF FloatLe(score, low) THEN "full"
    ELSE IF FloatLt(score, high) /\ improvements # <<>> THEN "targeted"
    ELSE "none"

\* Faulty variant: the high threshold compared with <=.
DecideHighInclusive(score, improvements, low, high) ==
    IF FloatLt(score, low) THEN "full"
    ELSE IF FloatLe(score, high) /\ improvements # <<>> THEN "targeted"
    ELSE "none"

\* Lines 140-168: the threshold ladder.
Decide(score, improvements, low, high) ==
    IF FloatLt(score, low) THEN "full"
    ELSE IF FloatLt(score, high) /\ improvements # <<>> THEN "targeted"
    ELSE "none"

\* Faulty variant: the difference taken the other way round.
EvaluationComparisonSwapped(evaluation, optimized_evaluation) ==
    [initialScore |-> evaluation.score,
     optimizedScore |-> optimized_evaluation.score,
     scoreDifference |-> FloatSub(evaluation.score, optimized_evaluation.score),
     initialEvaluation |-> evaluation,
     optimizedEvaluation |-> optimized_evaluation]

\* Lines 178-184
EvaluationComparison(evaluation, optimized_evaluation) ==
    [initialScore |-> evaluation.score,
     optimizedScore |-> optimized_evaluation.score,
     scoreDifference |-> FloatSub(optimized_evaluation.score, evaluation.score),
     initialEvaluation |-> evaluation,
     optimizedEvaluation |-> optimized_evaluation]

\* Lines 196-243: the result dict.
BuildResult(r) ==
    LET evaluation == r.evaluation[1]
        content == IF r.optimization_performed
                   THEN r.optimized_content ELSE r.initial_content
        base ==
          [content |-> content,
           contentType |-> Get(r.data, "contentType", "None"),
           platform |-> Get(r.data, "platform", "general"),
           brandVoice |-> Get(r.data, "brandVoice", "None"),
           targetAudience |-> "general audience",
           workflowInfo |->
             [initialGenerationCompleted |-> TRUE,
              evaluationPerformed |-> TRUE,
              evaluationScore |->
                 IF r.optimization_performed /\ r.optimized_evaluation # None
                 THEN r.optimized_evaluation[1].score ELSE evaluation.score,
              optimizationPerformed |-> r.optimization_performed,
              optimizationType |-> r.optimization_type,
              optimizationIterations |-> IF r.optimization_performed THEN 1 ELSE 0,
              modelUsed |-> "gemini-2.0-flash"],
           evaluationDetails |->
             [criteriaScores |-> evaluation.criteriaScores,
              strengths |-> evaluation.strengths,
              improvements |-> evaluation.improvements],
           suggestions |-> _generate_suggestions(evaluation, r.optimization_performed),
           modelUsed |-> "gemini-2.0-flash"]
    IN  IF r.optimization_performed
        THEN [optimizationDetails |->
                [initialContent |-> r.initial_content,
                 optimizedContent |-> r.optimized_content,
                 optimizationType |-> r.optimization_type,
                 improvementReason |-> r.optimization_details[1],
                 evaluationComparison |->
                    EvaluationComparison(evaluation, r.optimized_evaluation[1])]]
             @@ base
        ELSE base

\* Faulty variant: after a rewrite the details and the suggestions are
\* taken from the re-evaluation.
FinishDetailsFromReEvaluation(r) ==
    LET result == BuildResult(r)
        optimized_evaluation == r.optimized_evaluation[1]
    IN  Respond(r, 200,
                IF r.optimization_performed
                THEN [result EXCEPT
                        !.evaluationDetails =
                            [criteriaScores |-> optimized_evaluation.criteriaScores,
                             strengths |-> optimized_evaluation.strengths,
                             improvements |-> optimized_evaluation.improvements],
                        !.suggestions =
                            _generate_suggestions(optimized_evaluation, TRUE)]
                ELSE result)

\* app.py 121: the result is returned with status 200.
Finish(r) == Respond(r, 200, BuildResult(r))

\* app.py 123-137: an exception that left content_agent.generate_content.
GenerateFails(r, exc) ==
    IF exc.type = "ValueError"
    THEN Respond(r, 400, [error |-> "Invalid input", message |-> exc.msg])
    ELSE Respond(r, 500, [error |-> "Generation failed", message |-> exc.msg])

\* Lines 144-150 / 157-163, after _optimize_content has returned `result`;
\* then step 4 calls the model to evaluate the optimized content.
OptimizationDone(r, result) ==
    CallModel([r EXCEPT !.optimized_content = result.content,
                        !.optimization_details = Some(result.reasoning),
                        !.optimization_performed = TRUE,
                        !.optimization_type = r.strategy],
              "reevaluate", "evaluate", result.content)

(***************************************************************************)
(* The handlers, cut at the model calls.                                   *)
(***************************************************************************)
\* Faulty variant: the body is validated before the agent is checked.
GenerateRouteValidatesFirst(agent, data) ==
    LET r == NewRequest("/generate", data)
    IN  IF Falsy(data)
        THEN Respond(r, 400,
                     [error |-> "No JSON data provided",
                      message |-> "Request body must contain valid JSON"])
        ELSE IF MissingFields(data) # <<>>
        THEN Respond(r, 400,
                     [error |-> "Missing required fields",
                      missing_fields |-> MissingFields(data),
                      message |-> "Request must include: contentType, brandVoice, topic"])
        ELSE IF ~agent.initialized
        THEN Respond(r, 503,
                     [error |-> "Content agent not initialized",
                      message |-> "Service is not ready. Check API key configuration."])
        ELSE CallModel(r, "generate", "generate", <<>>)

\* app.py 82-115 and content_agent.py 94-118, up to the first model call.
GenerateRoute(agent, data) ==
    LET r == NewRequest("/generate", data)
    IN  IF ~agent.initialized
        THEN Respond(r, 503,
                     [error |-> "Content agent not initialized",
                      message |-> "Service is not ready. Check API key configuration."])
        ELSE IF Falsy(data)
        THEN Respond(r, 400,
                     [error |-> "No JSON data provided",
                      message |-> "Request body must contain valid JSON"])
        ELSE IF MissingFields(data) # <<>>
        THEN Respond(r, 400,
                     [error |-> "Missing required fields",
                      missing_fields |-> MissingFields(data),
                      message |-> "Request must include: contentType, brandVoice, topic"])
        ELSE CallModel(r, "generate", "generate", <<>>)

\* content_agent.py 270-286 and 120-126: the draft, then the evaluation call.
AfterGeneration(r, outcome) ==
    LET r0 == Returned(r, outcome)
    IN  IF outcome.kind = "text"
        THEN CallModel([r0 EXCEPT !.initial_content = Strip(outcome.text)],
                       "evaluate", "evaluate", Strip(outcome.text))
        ELSE IF outcome.kind = "no_candidates"
        THEN GenerateFails(r0, Exc("ValueError", "No content generated by the model"))
        ELSE GenerateFails(r0, outcome.exc)

\* content_agent.py 124-168: the evaluation, the decision and the start of
\* _optimize_content.
AfterEvaluation(r, agent, outcome) ==
    LET evaluation == _evaluate_content(outcome)
        type == Decide(evaluation.score, evaluation.improvements,
                       agent.low_quality_threshold, agent.high_quality_threshold)
        r1 == [Returned(r, outcome) EXCEPT !.evaluation = Some(evaluation),
                        !.optimized_content = r.initial_content,
                        !.strategy = type]
    IN  IF type = "none" THEN Finish(r1)
        ELSE IF NothingToOptimize(evaluation)
        THEN OptimizationDone(r1, [content |-> r.initial_content,
                                   reasoning |-> <<"No improvements needed">>])
        ELSE CallModel(r1, "optimize", "optimize", r.initial_content)

\* Faulty variant: a failed optimize call is made once more.
AfterOptimizationRetrying(r, outcome) ==
    IF outcome.kind # "text" /\ Len(r.calls) < 4
    THEN CallModel(Returned(r, outcome), "optimize", "optimize", r.initial_content)
    ELSE OptimizationDone(Returned(r, outcome),
                          _optimize_content(r.initial_content, outcome, r.strategy))

\* content_agent.py 462-500, then 148-175.
AfterOptimization(r, outcome) ==
    OptimizationDone(Returned(r, outcome),
                     _optimize_content(r.initial_content, outcome, r.strategy))

\* Faulty variant: a re-evaluated score below 7.0 starts one more rewrite.
AfterReEvaluationSecondRound(r, outcome) ==
    LET optimized_evaluation == _evaluate_content(outcome)
        r1 == [Returned(r, outcome) EXCEPT
                   !.optimized_evaluation = Some(optimized_evaluation)]
    IN  IF FloatLt(optimized_evaluation.score, F(70)) /\ Len(r.calls) < 5
        THEN CallModel(r1, "optimize", "optimize", r.optimized_content)
        ELSE Finish(r1)

\* content_agent.py 173-250
AfterReEvaluation(r, outcome) ==
    Finish([Returned(r, outcome) EXCEPT
                !.optimized_evaluation = Some(_evaluate_content(outcome))])

\* app.py 184-207, up to the model call of _evaluate_content.
EvaluateRoute(agent, data) ==
    LET r == NewRequest("/evaluate", data)
    IN  IF ~agent.initialized
        THEN Respond(r, 503, [error |-> "Content agent not initialized"])
        ELSE IF Falsy(data) \/ ~Has(data, "content")
        THEN Respond(r, 400, [error |-> "Missing required field 'content'"])
        ELSE CallModel(r, "evaluate_only", "evaluate", <<data.d["content"]>>)

\* app.py 205-215
AfterStandaloneEvaluation(r, outcome) ==
    LET evaluation == _evaluate_content(outcome)
    IN  Respond([Returned(r, outcome) EXCEPT !.evaluation = Some(evaluation)], 200,
                [evaluation |-> evaluation,
                 content |-> r.data.d["content"],
                 contentType |-> Get(r.data, "contentType", "general")])

\* Faulty variant: the health check does not look at the agent.
HealthRouteAlwaysHealthy(agent) ==
    Respond(NewRequest("/health", NullBody), 200,
            [status |-> "healthy",
             service |-> "marketing-agent-factory-python",
             agent_status |-> "healthy",
             llm_provider |-> "gemini", model |-> "gemini-2.0-flash",
             version |-> "1.0.0"])

\* app.py 39-57: GET /health.
HealthRoute(agent) ==
    LET agent_status == IF agent.initialized THEN "healthy" ELSE "unhealthy"
    IN  Respond(NewRequest("/health", NullBody), 200,
                [status |-> IF agent_status = "healthy" THEN "healthy" ELSE "unhealthy",
                 service |-> "marketing-agent-factory-python",
                 agent_status |-> agent_status,
                 llm_provider |-> "gemini", model |-> "gemini-2.0-flash",
                 version |-> "1.0.0"])

\* app.py 39, 59, 139, 168: the paths the application routes.
Routes == {"/health", "/generate", "/stream/<task_id>", "/evaluate"}

\* app.py 224-231: a request to a path outside Routes reaches no view; the
\* 404 handler answers it.
not_found(path, data) ==
    Respond(NewRequest(path, data), 404,
            [error |-> "Not found",
             message |-> "The requested endpoint does not exist",
             available_endpoints |->
                 <<"/health", "/generate", "/stream/<task_id>", "/evaluate">>])

\* Requests to /config: a GET (no body) and a POST carrying two thresholds.
ConfigBodies ==
    {NullBody,
     [null |-> FALSE,
      d |-> [lowQualityThreshold |-> F(65), highQualityThreshold |-> F(80)]]}

(***************************************************************************)
(* What the model answers in the workflow.                                 *)
(***************************************************************************)
GenerationTexts == {<<"draft">>, <<"", "draft", "">>}

OptimizerTexts ==
    {<<"strategy", Fence, "better", Fence>>,
     <<"strategy", "OPTIMIZED CONTENT:", "better", "">>,
     <<"OPTIMIZED CONTENT:", "better">>,
     <<"draft">>}

ItemWords == <<"clarity", "engagement", "call to action">>

Items(n) == [i \in 1..n |-> Line("item", i, <<"improve", ItemWords[i]>>)]

\* An answer in the requested format: a score line (or none), one strength,
\* n improvements, the NEEDS_OPTIMIZATION line and a guidance line (or none).
EvaluationText(score, n, needs, guidance) ==
    (IF score = <<>> THEN <<>> ELSE <<Line("OVERALL_SCORE:", 0, score)>>)
    \o <<Line("STRENGTHS:", 0, <<>>), Line("item", 1, <<"good hook">>),
         Line("IMPROVEMENTS:", 0, <<>>)>>
    \o Items(n)
    \o <<Line("NEEDS_OPTIMIZATION:", 0, <<needs>>)>>
    \o (IF guidance THEN <<Line("OPTIMIZATION_GUIDANCE:", 0, <<"shorten">>)>> ELSE <<>>)

ScoreWords ==
    {<<>>, <<"6.9">>, <<"7">>, <<"8.4">>, <<"8.5">>, <<"9">>, <<"nan">>, <<"8/10">>}

\* Answers that ignore the requested format: no line starts with a label
\* the parser looks for.
UnlabelledTexts ==
    {<<Line("", 0, <<"Looks", "fine">>)>>,
     <<Line("SCORE:", 0, <<"9">>), Line("item", 1, <<"improve", "clarity">>)>>}

\* Answers that give the NEEDS_OPTIMIZATION line twice.
RepeatedNeedsTexts ==
    {<<Line("OVERALL_SCORE:", 0, <<"9">>), Line("NEEDS_OPTIMIZATION:", 0, <<a>>),
       Line("NEEDS_OPTIMIZATION:", 0, <<b>>)>> :
        a \in {"YES", "NO"}, b \in {"YES", "NO"}}

EvaluationTexts ==
    {EvaluationText(s, n, needs, g) :
        s \in ScoreWords, n \in 0..MaxItems, needs \in {"YES", "NO"}, g \in BOOLEAN}
    \cup UnlabelledTexts \cup RepeatedNeedsTexts

TextOutcomes(texts) == {TextOutcome(t) : t \in texts}

(***************************************************************************)
(* Requests handled at the same time (app.run serves each request in a     *)
(* thread of its own).  reqs[i] holds what handler i received (endpoint,   *)
(* data, and outs: the model outcomes delivered to it, each with the       *)
(* position it was delivered at) and r, its locals.  The only object the   *)
(* handlers share is content_agent.                                        *)
(***************************************************************************)
Handlers == 1..NumHandlers

IdleHandler == [r |-> IdleRequest, endpoint |-> "", data |-> NullBody, outs |-> <<>>]

ConcIdle == [i \in Handlers |-> IdleHandler]

\* Faulty variant: the handlers keep their working state in one place
\* (as attributes of the one ContentAgent would be).
LocalsShared(rs, i) == rs[1].r

\* The locals of the handler of request i.
Locals(rs, i) == rs[i].r

\* The view function the request is routed to.
Route(agent, endpoint, data) ==
    IF endpoint = "/generate" THEN GenerateRoute(agent, data)
    ELSE EvaluateRoute(agent, data)

\* The handler at r.pc continues with the outcome of its model call.
StepReturn(r, agent, outcome) ==
    CASE r.pc = "generate" -> AfterGeneration(r, outcome)
      [] r.pc = "evaluate" -> AfterEvaluation(r, agent, outcome)
      [] r.pc = "optimize" -> AfterOptimization(r, outcome)
      [] r.pc = "reevaluate" -> AfterReEvaluation(r, outcome)
      [] r.pc = "evaluate_only" -> AfterStandaloneEvaluation(r, outcome)

ConcBodies ==
    [generate |-> {Body({"contentType", "brandVoice", "topic"}), Body({"topic"})},
     evaluate |-> {Body({"content"})}]

ConcEvaluations ==
    {TextOutcome(EvaluationText(<<"9">>, 0, "NO", FALSE)),
     TextOutcome(EvaluationText(<<"6.9">>, 1, "YES", TRUE)),
     Raises(Exc("ResourceExhausted", "429 quota exceeded"))}

\* What the model call a handler waits for at pc can return.
ConcOutcomes(pc) ==
    CASE pc = "generate" -> {TextOutcome(<<"draft">>), NoCandidates}
      [] pc = "optimize" ->
            {TextOutcome(<<"OPTIMIZED CONTENT:", "better">>),
             Raises(Exc("ResourceExhausted", "429 quota exceeded"))}
      [] pc \in {"evaluate", "reevaluate", "evaluate_only"} -> ConcEvaluations
      [] OTHER -> {}

(***************************************************************************)
(* src/ai-agent: generate_with_feedback_loop.  A string is a sequence of   *)
(* characters here, so that lower() and the substring test are computed.   *)
(***************************************************************************)
UpperToLower == ("Y" :> "y") @@ ("E" :> "e") @@ ("S" :> "s") @@ ("N" :> "n") @@ ("O" :> "o")

\* str.lower()
Lower(s) ==
    [i \in 1..Len(s) |-> IF s[i] \in DOMAIN UpperToLower THEN UpperToLower[s[i]] ELSE s[i]]

\* w in s
Contains(s, w) ==
    \E i \in 1..(Len(s) - Len(w) + 1) : SubSeq(s, i, i + Len(w) - 1) = w

\* generator.py 31: "yes" in evaluation.lower()
Approved(evaluation) == Contains(Lower(evaluation), <<"y", "e", "s">>)

\* What the request and the two pipelines can deliver.
LoopTexts == {"draft", "better"}

LoopEvaluations ==
    {<<"y", "e", "s">>, <<"Y", "e", "s", ".">>, <<"n", "o">>, <<"N", "O">>,
     <<"e", "y", "e", "s">>, <<"y", "e", "t">>}

LoopIdle ==
    [pc |-> "idle", max_iterations |-> 0, i |-> 0, current_text |-> "",
     history |-> <<>>, evaluations |-> 0, improvements |-> 0, result |-> None]

\* generator.py 19-21: history = [] and the call of generate_pipe.
StartLoop(max_iterations) ==
    [LoopIdle EXCEPT !.pc = "generate", !.max_iterations = max_iterations]

\* Faulty variant: the loop runs once more than max_iterations.
LoopHeadInclusive(l) ==
    IF l.i <= l.max_iterations
    THEN [l EXCEPT !.pc = "evaluate", !.evaluations = @ + 1]
    ELSE [l EXCEPT !.pc = "done",
                   !.result = Some([final_text |-> l.current_text,
                                    iterations |-> l.history,
                                    note |-> "Returned after max iterations"])]

\* Faulty variant: after the loop the last evaluated text is returned.
LoopHeadReturnsEvaluated(l) ==
    IF l.i < l.max_iterations
    THEN [l EXCEPT !.pc = "evaluate", !.evaluations = @ + 1]
    ELSE [l EXCEPT !.pc = "done",
                   !.result = Some([final_text |->
                                        IF l.history = <<>> THEN l.current_text
                                        ELSE l.history[Len(l.history)].text,
                                    iterations |-> l.history,
                                    note |-> "Returned after max iterations"])]

\* generator.py 23-24 and 39-44: "for i in range(max_iterations)" with the
\* call of self_evaluate, or the return after the loop.  evaluations and
\* improvements count the calls of self_evaluate and improve_text.
LoopHead(l) ==
    IF l.i < l.max_iterations
    THEN [l EXCEPT !.pc = "evaluate", !.evaluations = @ + 1]
    ELSE [l EXCEPT !.pc = "done",
                   !.result = Some([final_text |-> l.current_text,
                                    iterations |-> l.history,
                                    note |-> "Returned after max iterations"])]

\* generator.py 21: generate_pipe has returned the draft.
AfterGeneratePipe(l, text) == LoopHead([l EXCEPT !.current_text = text])

\* generator.py 24-37: self_evaluate has returned.
AfterSelfEvaluate(l, evaluation) ==
    LET history == Append(l.history, [iteration |-> l.i + 1,
                                      text |-> l.current_text,
                                      evaluation |-> evaluation])
    IN  IF Approved(evaluation)
        THEN [l EXCEPT !.pc = "done", !.history = history,
                       !.result = Some([final_text |-> l.current_text,
                                        iterations |-> history])]
        ELSE [l EXCEPT !.pc = "improve", !.history = history,
                       !.improvements = @ + 1]

\* generator.py 37: improve_text has returned; the next iteration starts.
AfterImproveText(l, text) ==
    LoopHead([l EXCEPT !.current_text = text, !.i = @ + 1])

(***************************************************************************)
(* Specification SpecParse: the parser and _evaluate_content as pure       *)
(* functions, on every text of at most MaxLines lines over ParseAlphabet.  *)
(***************************************************************************)
ParseAlphabet ==
    {Line("OVERALL_SCORE:", 0, t) : t \in {<<"0.5">>, <<"9">>, <<"15">>, <<"8/10">>}}
    \cup {Line("STRENGTHS:", 0, <<>>), Line("IMPROVEMENTS:", 0, <<>>),
          Line("CRITERIA_SCORES:", 0, <<>>),
          Line("NEEDS_OPTIMIZATION:", 0, <<"YES">>),
          Line("NEEDS_OPTIMIZATION:", 0, <<"NO">>),
          Line("OPTIMIZATION_GUIDANCE:", 0, <<"shorten">>)}
    \cup {Line("item", 1, <<"a">>), Line("item", 2, <<"b">>), Line("item", 4, <<"c">>),
          Line("item", 1, <<>>)}
    \cup {Line("-", 0, <<"Brand Voice", "8">>), Line("SCORE:", 0, <<"9">>)}

BoundedSeq(S, n) == UNION {[1..k -> S] : k \in 0..n}

ParseTexts == BoundedSeq(ParseAlphabet, MaxLines)

EvIdle == [pc |-> "idle", input |-> NoCandidates, result |-> None, reparsed |-> None]

ParseInit ==
    /\ content_agent = NoAgent
    /\ req = IdleRequest
    /\ \E o \in {TextOutcome(t) : t \in ParseTexts} \cup FailureOutcomes :
          ev = [EvIdle EXCEPT !.pc = "input", !.input = o]
    /\ loop = LoopIdle
    /\ reqs = ConcIdle

\* The parser applied to the text of a response.
ParseResponse ==
    /\ ev.pc = "input"
    /\ ev.input.kind = "text"
    /\ ev' = [ev EXCEPT !.pc = "parsed",
                        !.result = Some(_parse_evaluation_response(ev.input.text))]
    /\ UNCHANGED <<content_agent, req, loop, reqs>>

\* _evaluate_content applied to the outcome of its model call.
EvaluateContent ==
    /\ ev.pc = "input"
    /\ ev' = [ev EXCEPT !.pc = "evaluated",
                        !.result = Some(_evaluate_content(ev.input))]
    /\ UNCHANGED <<content_agent, req, loop, reqs>>

\* The rawEvaluation text of an Evaluation parsed again.
Reparse ==
    /\ ev.pc = "evaluated"
    /\ ev' = [ev EXCEPT !.pc = "reparsed",
                        !.reparsed =
                            Some(_parse_evaluation_response(ev.result[1].rawEvaluation))]
    /\ UNCHANGED <<content_agent, req, loop, reqs>>

ParseNext == ParseResponse \/ EvaluateContent \/ Reparse

SpecParse == ParseInit /\ [][ParseNext]_vars

(***************************************************************************)
(* Specification Spec: the service handling one request after another.     *)
(***************************************************************************)
Init ==
    /\ content_agent \in {NoAgent} \cup {Agent(c[1], c[2]) : c \in ThresholdConfigs}
    /\ req = IdleRequest
    /\ ev = EvIdle
    /\ loop = LoopIdle
    /\ reqs = ConcIdle

ReceiveGenerate ==
    /\ req.pc = "idle"
    /\ \E data \in GenerateBodies : req' = GenerateRoute(content_agent, data)
    /\ UNCHANGED <<content_agent, ev, loop, reqs>>

GenerationReturns ==
    /\ req.pc = "generate"
    /\ \E o \in TextOutcomes(GenerationTexts) \cup FailureOutcomes :
          req' = AfterGeneration(req, o)
    /\ UNCHANGED <<content_agent, ev, loop, reqs>>

EvaluationReturns ==
    /\ req.pc = "evaluate"
    /\ \E o \in TextOutcomes(EvaluationTexts) \cup FailureOutcomes :
          req' = AfterEvaluation(req, content_agent, o)
    /\ UNCHANGED <<content_agent, ev, loop, reqs>>

OptimizationReturns ==
    /\ req.pc = "optimize"
    /\ \E o \in TextOutcomes(OptimizerTexts) \cup FailureOutcomes :
          req' = AfterOptimization(req, o)
    /\ UNCHANGED <<content_agent, ev, loop, reqs>>

ReEvaluationReturns ==
    /\ req.pc = "reevaluate"
    /\ \E o \in TextOutcomes(EvaluationTexts) \cup FailureOutcomes :
          req' = AfterReEvaluation(req, o)
    /\ UNCHANGED <<content_agent, ev, loop, reqs>>

ReceiveEvaluate ==
    /\ req.pc = "idle"
    /\ \E data \in EvaluateBodies : req' = EvaluateRoute(content_agent, data)
    /\ UNCHANGED <<content_agent, ev, loop, reqs>>

StandaloneEvaluationReturns ==
    /\ req.pc = "evaluate_only"
    /\ \E o \in TextOutcomes(EvaluationTexts) \cup FailureOutcomes :
          req' = AfterStandaloneEvaluation(req, o)
    /\ UNCHANGED <<content_agent, ev, loop, reqs>>

ReceiveHealth ==
    /\ req.pc = "idle"
    /\ req' = HealthRoute(content_agent)
    /\ UNCHANGED <<content_agent, ev, loop, reqs>>

\* /config is not in Routes.
ReceiveConfig ==
    /\ req.pc = "idle"
    /\ "/config" \notin Routes
    /\ \E data \in ConfigBodies : req' = not_found("/config", data)
    /\ UNCHANGED <<content_agent, ev, loop, reqs>>

\* The response has been sent; the service waits for the next request.
NextRequest ==
    /\ req.pc = "done"
    /\ req' = IdleRequest
    /\ UNCHANGED <<content_agent, ev, loop, reqs>>

Next ==
    \/ ReceiveGenerate
    \/ GenerationReturns
    \/ EvaluationReturns
    \/ OptimizationReturns
    \/ ReEvaluationReturns
    \/ ReceiveEvaluate
    \/ StandaloneEvaluationReturns
    \/ ReceiveHealth
    \/ ReceiveConfig
    \/ NextRequest

Spec == Init /\ [][Next]_vars

(***************************************************************************)
(* Specification SpecLoop: one call of generate_with_feedback_loop.        *)
(***************************************************************************)
LoopInit ==
    /\ content_agent = NoAgent
    /\ req = IdleRequest
    /\ ev = EvIdle
    /\ loop = LoopIdle
    /\ reqs = ConcIdle

\* routes.py 21-27: POST /generate/loop; max_iterations is any int.
generate_with_loop ==
    /\ loop.pc = "idle"
    /\ \E max_iterations \in -1..MaxIterations : loop' = StartLoop(max_iterations)
    /\ UNCHANGED <<content_agent, req, ev, reqs>>

GeneratePipeReturns ==
    /\ loop.pc = "generate"
    /\ \E text \in LoopTexts : loop' = AfterGeneratePipe(loop, text)
    /\ UNCHANGED <<content_agent, req, ev, reqs>>

SelfEvaluateReturns ==
    /\ loop.pc = "evaluate"
    /\ \E evaluation \in LoopEvaluations : loop' = AfterSelfEvaluate(loop, evaluation)
    /\ UNCHANGED <<content_agent, req, ev, reqs>>

ImproveTextReturns ==
    /\ loop.pc = "improve"
    /\ \E text \in LoopTexts : loop' = AfterImproveText(loop, text)
    /\ UNCHANGED <<content_agent, req, ev, reqs>>

LoopNext ==
    \/ generate_with_loop
    \/ GeneratePipeReturns
    \/ SelfEvaluateReturns
    \/ ImproveTextReturns

SpecLoop == LoopInit /\ [][LoopNext]_vars

\* The function is sequential code and each pipeline call returns: a step
\* that can be taken is taken.
SpecLoopFair == SpecLoop /\ WF_vars(LoopNext)

(***************************************************************************)
(* Specification SpecConc: NumHandlers requests handled at the same time,  *)
(* their steps interleaved in any order.                                   *)
(***************************************************************************)
ConcInit ==
    /\ content_agent \in {NoAgent, DefaultAgent}
    /\ req = IdleRequest
    /\ ev = EvIdle
    /\ loop = LoopIdle
    /\ reqs = ConcIdle

\* A handler that has received a request and run up to its first model
\* call or to its response.
Received(agent, endpoint, data) ==
    [r |-> Route(agent, endpoint, data), endpoint |-> endpoint, data |-> data,
     outs |-> <<>>]

ConcReceiveGenerate ==
    \E i \in Handlers :
        /\ Locals(reqs, i).pc = "idle"
        /\ \E data \in ConcBodies.generate :
              reqs' = [reqs EXCEPT ![i] = Received(content_agent, "/generate", data)]
        /\ UNCHANGED <<content_agent, req, ev, loop>>

ConcReceiveEvaluate ==
    \E i \in Handlers :
        /\ Locals(reqs, i).pc = "idle"
        /\ \E data \in ConcBodies.evaluate :
              reqs' = [reqs EXCEPT ![i] = Received(content_agent, "/evaluate", data)]
        /\ UNCHANGED <<content_agent, req, ev, loop>>

\* The model call handler i waits for returns, and the handler runs on to
\* its next model call or to its response.
ConcModelReturns ==
    \E i \in Handlers :
        LET r == Locals(reqs, i)
        IN  \E o \in ConcOutcomes(r.pc) :
              /\ reqs' = [reqs EXCEPT
                            ![i].r = StepReturn(r, content_agent, o),
                            ![i].outs = Append(@, [at |-> r.pc, o |-> o])]
              /\ UNCHANGED <<content_agent, req, ev, loop>>

ConcNext == ConcReceiveGenerate \/ ConcReceiveEvaluate \/ ConcModelReturns

SpecConc == ConcInit /\ [][ConcNext]_vars

(***************************************************************************)
(* Properties.                                                             *)
(***************************************************************************)
Resp == req.resp[1]

GenerateAnswered(status) ==
    req.pc = "done" /\ req.endpoint = "/generate" /\ Resp.status = status

LastCall == req.calls[Len(req.calls)]

\* C1: with the default thresholds 7.0 and 8.5, the optimizationType a
\* /generate response reports is "full" when the initial score s is below
\* 7.0, "targeted" when 7.0 <= s < 8.5 and the improvements list is not
\* empty, and otherwise "none" with optimizationPerformed false.
C1_DecisionFollowsThresholds ==
    (GenerateAnswered(200) /\ content_agent = DefaultAgent) =>
        LET s == req.evaluation[1].score
            I == req.evaluation[1].improvements
            info == Resp.body.workflowInfo
        IN  IF ~s.nan /\ s.t < 70
            THEN info.optimizationType = "full"
            ELSE IF ~s.nan /\ 70 <= s.t /\ s.t < 85 /\ I # <<>>
            THEN info.optimizationType = "targeted"
            ELSE info.optimizationType = "none" /\ ~info.optimizationPerformed

\* A response to a draft scored exactly 7.0 with improvements listed.
C1_Witness ==
    /\ GenerateAnswered(200)
    /\ content_agent = DefaultAgent
    /\ req.evaluation[1].score = F(70)
    /\ req.evaluation[1].improvements # <<>>
    /\ Resp.body.workflowInfo.optimizationType = "targeted"

\* C2: the score of the Evaluation the parser returns lies in [1, 10]: a
\* value below 1 on the score line is stored as 1, one above 10 as 10.
C2_ScoreClampedTo1And10 ==
    ev.pc = "parsed" =>
        LET s == ev.result[1].score IN ~s.nan /\ 10 <= s.t /\ s.t <= 100

\* C3: with the agent initialised, a POST /generate whose JSON object lacks
\* required keys is answered 400 with missing_fields exactly the absent
\* required keys (the empty object included), and no model call is made.
C3_MissingFieldsListed ==
    (/\ req.pc = "done" /\ req.endpoint = "/generate"
     /\ content_agent.initialized
     /\ ~req.data.null
     /\ \E i \in 1..Len(required_fields) : ~Has(req.data, required_fields[i])) =>
        /\ Resp.status = 400
        /\ "missing_fields" \in DOMAIN Resp.body
        /\ {Resp.body.missing_fields[i] : i \in 1..Len(Resp.body.missing_fields)}
             = {required_fields[i] : i \in 1..Len(required_fields)}
               \ DOMAIN req.data.d
        /\ req.calls = <<>>

C5_RewriteIsReEvaluatedAndReported ==
    (req.endpoint = "/generate" /\ req.optimization_performed) =>
        /\ Len(req.calls) >= 3
        /\ LastCall.prompt = "evaluate"
        /\ LastCall.content = req.optimized_content
        /\ req.pc \in {"reevaluate", "done"}
        /\ req.pc = "reevaluate" => req.resp = None /\ LastCall.outcome = "pending"
        /\ req.pc = "done" =>
             /\ Resp.status = 200
             /\ LastCall.outcome # "pending"
             /\ req.optimized_evaluation # None
             /\ "optimizationDetails" \in DOMAIN Resp.body
             /\ LET d == Resp.body.optimizationDetails
                    c == d.evaluationComparison
                    a == req.evaluation[1].score
                    b == req.optimized_evaluation[1].score
                IN  /\ d.initialContent = req.initial_content
                    /\ d.optimizedContent = req.optimized_content
                    /\ c.initialScore = a
                    /\ c.optimizedScore = b
                    /\ c.scoreDifference =
                         (IF a.nan \/ b.nan THEN NaN ELSE F(b.t - a.t))

\* A rewrite that changed the draft and whose re-evaluation scored lower.
C5_Witness ==
    /\ GenerateAnswered(200)
    /\ req.optimization_performed
    /\ req.optimized_content # req.initial_content
    /\ ~Resp.body.optimizationDetails.evaluationComparison.scoreDifference.nan
    /\ Resp.body.optimizationDetails.evaluationComparison.scoreDifference.t < 0

ScoreAtLeast(threshold) ==
    /\ ~req.evaluation[1].score.nan
    /\ req.evaluation[1].score.t >= threshold.t

NoOptimizationReported ==
    /\ ~Resp.body.workflowInfo.optimizationPerformed
    /\ Resp.body.workflowInfo.optimizationType = "none"
    /\ Resp.body.workflowInfo.optimizationIterations = 0
    /\ "optimizationDetails" \notin DOMAIN Resp.body
    /\ Resp.body.content = req.initial_content
    /\ Len(req.calls) = 2
    /\ req.calls[1].prompt = "generate"
    /\ req.calls[2].prompt = "evaluate"

\* C6 as stated: a /generate response whose initial score is at or above
\* the high threshold reports optimizationPerformed false, optimizationType
\* "none", optimizationIterations 0, has no optimizationDetails, returns the
\* initial draft, and exactly two model calls were made.
C6_HighScoreSkipsOptimization ==
    (GenerateAnswered(200) /\ ScoreAtLeast(content_agent.high_quality_threshold))
        => NoOptimizationReported

\* C6 amended: a /generate response whose initial score is at or above the
\* high threshold and not below the low threshold reports
\* optimizationPerformed false, optimizationType "none",
\* optimizationIterations 0, has no optimizationDetails, returns the initial
\* draft, and exactly two model calls were made: generation, evaluation.
C6_ScoreAboveBothThresholdsSkipsOptimization ==
    (/\ GenerateAnswered(200)
     /\ ScoreAtLeast(content_agent.high_quality_threshold)
     /\ ScoreAtLeast(content_agent.low_quality_threshold))
        => NoOptimizationReported

\* A draft scored exactly the high threshold 8.5, improvements listed.
C6_Witness ==
    /\ GenerateAnswered(200)
    /\ content_agent = DefaultAgent
    /\ req.evaluation[1].score = F(85)
    /\ req.evaluation[1].improvements # <<>>

SameAsReparsed ==
    /\ ev.reparsed[1].score = ev.result[1].score
    /\ ev.reparsed[1].strengths = ev.result[1].strengths
    /\ ev.reparsed[1].improvements = ev.result[1].improvements

\* C7 as stated: for every Evaluation _evaluate_content produces, parsing
\* its rawEvaluation again gives the same score, strengths and improvements.
C7_ReparseSameOnEveryEvaluation == ev.pc = "reparsed" => SameAsReparsed

\* C7 amended: for every Evaluation _evaluate_content produces from the
\* text of a model response, parsing its rawEvaluation again gives the same
\* score, strengths and improvements.
C7_ReparseSameOnModelText ==
    (ev.pc = "reparsed" /\ ev.input.kind = "text") => SameAsReparsed

\* A three-line text with a score, a section and an item, parsed twice.
C7_Witness ==
    /\ ev.pc = "reparsed"
    /\ ev.input.kind = "text"
    /\ Len(ev.input.text) = 3
    /\ ev.result[1].score = F(90)
    /\ Len(ev.result[1].improvements) = 1

IsFallbackEvaluation(e) ==
    /\ e.score = F(65)
    /\ e.needsImprovement
    /\ e.improvements = << <<"Refine messaging to better match brand voice">>,
                           <<"Improve", "clarity", "for target audience">> >>

\* C8: when the model call of an evaluation step raises (initial
\* evaluation, re-evaluation, POST /evaluate), the step yields the hardcoded
\* default Evaluation (score 6.5, needsImprovement, two generic
\* improvements) and the request is answered 200.
C8_EvaluationFailureIsAbsorbed ==
    \A i \in 1..Len(req.calls) :
        (req.calls[i].prompt = "evaluate" /\ req.calls[i].outcome = "raise") =>
            /\ IF req.endpoint = "/generate" /\ i > 2
               THEN /\ IsFallbackEvaluation(req.optimized_evaluation[1])
                    /\ Resp.body.workflowInfo.evaluationScore = F(65)
               ELSE IsFallbackEvaluation(req.evaluation[1])
            /\ req.pc = "done" => Resp.status = 200
            /\ (req.pc = "done" /\ req.endpoint = "/evaluate") =>
                  IsFallbackEvaluation(Resp.body.evaluation)

\* A /generate answered after its initial evaluation and its re-evaluation
\* both raised.
C8_Witness ==
    /\ GenerateAnswered(200)
    /\ Len(req.calls) = 4
    /\ req.calls[2].outcome = "raise"
    /\ req.calls[4].outcome = "raise"

OptimizeCallRaised ==
    \E i \in 1..Len(req.calls) :
        req.calls[i].prompt = "optimize" /\ req.calls[i].outcome = "raise"

\* C9: when the model call of the optimization step raises, the request
\* goes on and is answered 200; content and
\* optimizationDetails.optimizedContent are the initial draft.
C9_OptimizationFailureKeepsDraft ==
    (req.endpoint = "/generate" /\ OptimizeCallRaised) =>
        /\ req.pc \in {"reevaluate", "done"}
        /\ req.optimized_content = req.initial_content
        /\ req.pc = "done" =>
             /\ Resp.status = 200
             /\ Resp.body.content = req.initial_content
             /\ Resp.body.optimizationDetails.optimizedContent = req.initial_content

\* A response built after the optimization call raised.
C9_Witness ==
    /\ GenerateAnswered(200)
    /\ OptimizeCallRaised
    /\ Resp.body.optimizationDetails.initialContent = <<"draft">>

\* C10: a valid POST /generate whose initial-generation model call raises,
\* or returns no candidates, is answered 500 ("Generation failed"), never
\* 400 or 200.
C10_GenerationFailureIs500 ==
    (/\ req.pc = "done" /\ req.endpoint = "/generate"
     /\ Len(req.calls) = 1
     /\ req.calls[1].outcome \in {"raise", "no_candidates"}) =>
        /\ Resp.status = 500
        /\ Resp.body.error = "Generation failed"

\* C11: the service answers GET /config and POST /config: a POST /config
\* writes the low and high thresholds (so that later /generate decisions
\* use them) and a GET /config returns the values in effect.
C11_ConfigReadsAndWritesThresholds ==
    (req.pc = "done" /\ req.endpoint = "/config")
    => /\ Resp.status = 200
       /\ ~req.data.null =>
             /\ content_agent.low_quality_threshold = req.data.d.lowQualityThreshold
             /\ content_agent.high_quality_threshold = req.data.d.highQualityThreshold

\* C14: GET /health is always answered 200, and the status it reports is
\* "unhealthy" exactly when the content agent failed to initialise, which
\* are exactly the states where /generate and /evaluate answer 503;
\* otherwise it is "healthy".
C14_HealthReportsAgentState ==
    /\ (req.pc = "done" /\ req.endpoint = "/health")
       => /\ Resp.status = 200
          /\ Resp.body.status \in {"healthy", "unhealthy"}
          /\ Resp.body.status = "unhealthy" <=> ~content_agent.initialized
    /\ (req.pc = "done" /\ req.endpoint \in {"/generate", "/evaluate"})
       => (Resp.status = 503 <=> ~content_agent.initialized)

C14_Witness ==
    /\ req.pc = "done" /\ req.endpoint = "/health"
    /\ Resp.body.status = "unhealthy"

\* The kinds of prompt of the model calls made so far, in order.
CallKinds == [i \in 1..Len(req.calls) |-> req.calls[i].prompt]

IsPrefix(s, t) == Len(s) <= Len(t) /\ \A i \in 1..Len(s) : s[i] = t[i]

\* C15: within one generate_content run the model calls are made in the
\* order generate, evaluate, optimize (only when a rewrite was decided),
\* re-evaluate; each call starts after the one before it has returned,
\* none is made again after it failed, there are at most four, and no
\* optimize call is made before the initial evaluation has returned.
C15_ModelCallsInFixedOrder ==
    req.endpoint = "/generate" =>
        /\ Len(req.calls) <= 4
        /\ \/ IsPrefix(CallKinds, <<"generate", "evaluate", "optimize", "evaluate">>)
           \/ IsPrefix(CallKinds, <<"generate", "evaluate", "evaluate">>)
        /\ \A i \in 1..Len(req.calls) - 1 :
              /\ req.calls[i].outcome # "pending"
              /\ req.calls[i].outcome # "text" => CallKinds[i + 1] # CallKinds[i]
        /\ Len(req.calls) >= 3 =>
              /\ req.evaluation # None
              /\ req.strategy \in {"full", "targeted"}

\* Four calls were made and the optimize call, which failed, was the third.
C15_Witness ==
    /\ req.pc = "done" /\ req.endpoint = "/generate"
    /\ CallKinds = <<"generate", "evaluate", "optimize", "evaluate">>
    /\ req.calls[3].outcome = "raise"

\* C19: when the initial score is below the low threshold and the
\* evaluation has neither improvements nor optimization guidance,
\* _optimize_content makes no model call and returns the original content
\* with the reason "No improvements needed"; the response still reports
\* optimizationPerformed true, optimizationType "full" and one iteration,
\* the re-evaluation is run, and optimizedContent equals initialContent.
C19_EmptyFullRewriteIsReportedAsPerformed ==
    (/\ GenerateAnswered(200)
     /\ FloatLt(req.evaluation[1].score, content_agent.low_quality_threshold)
     /\ req.evaluation[1].improvements = <<>>
     /\ req.evaluation[1].optimizationGuidance = <<>>)
    => /\ CallKinds = <<"generate", "evaluate", "evaluate">>
       /\ req.calls[3].content = req.initial_content
       /\ Resp.body.workflowInfo.optimizationPerformed
       /\ Resp.body.workflowInfo.optimizationType = "full"
       /\ Resp.body.workflowInfo.optimizationIterations = 1
       /\ Resp.body.optimizationDetails.improvementReason = <<"No improvements needed">>
       /\ Resp.body.optimizationDetails.optimizedContent
             = Resp.body.optimizationDetails.initialContent
       /\ Resp.body.content = req.initial_content

C19_Witness ==
    /\ GenerateAnswered(200)
    /\ content_agent = DefaultAgent
    /\ req.evaluation[1].score = F(69)
    /\ req.evaluation[1].improvements = <<>>
    /\ req.evaluation[1].optimizationGuidance = <<>>
    /\ Resp.body.workflowInfo.optimizationPerformed

\* C20: with the default thresholds, whenever the model call of the
\* initial evaluation fails, the decision is "full", an optimize model call
\* is made next and, once it has returned, the re-evaluation follows.
C20_FailedEvaluationLeadsToFullRewrite ==
    (/\ content_agent = DefaultAgent
     /\ req.endpoint = "/generate"
     /\ Len(req.calls) >= 2
     /\ req.calls[2].outcome \in {"raise", "no_candidates"})
    => /\ req.evaluation[1].score = F(65)
       /\ req.evaluation[1].improvements # <<>>
       /\ req.strategy = "full"
       /\ Len(req.calls) >= 3
       /\ req.calls[3].prompt = "optimize"
       /\ req.calls[3].outcome # "pending" =>
             /\ Len(req.calls) = 4
             /\ req.calls[4].prompt = "evaluate"
             /\ req.calls[4].content = req.optimized_content
       /\ req.pc = "done" =>
             /\ Len(req.calls) = 4
             /\ Resp.status = 200
             /\ Resp.body.workflowInfo.optimizationType = "full"

C20_Witness ==
    /\ GenerateAnswered(200)
    /\ content_agent = DefaultAgent
    /\ req.calls[2].outcome = "raise"
    /\ req.calls[3].outcome = "text"
    /\ Resp.body.workflowInfo.optimizationType = "full"

\* The label prefixes the parser tests each line against.
RecognisedLabels ==
    {"CRITERIA_SCORES:", "OVERALL_SCORE:", "STRENGTHS:", "IMPROVEMENTS:",
     "NEEDS_OPTIMIZATION:", "OPTIMIZATION_GUIDANCE:"}

\* The label of the last label line before line i of text, "" if none.
LastLabel(text, i) ==
    LET before == {j \in 1..(i - 1) : text[j].k \in RecognisedLabels}
    IN  IF before = {} THEN ""
        ELSE text[CHOOSE j \in before : \A k \in before : k <= j].k

\* The texts of the item lines numbered 1 to 3 among the first n lines of
\* text whose last label line is `label`, in line order; with_empty says
\* whether an item line without text after its number counts.
RECURSIVE ItemsUnder(_, _, _, _)
ItemsUnder(text, n, label, with_empty) ==
    IF n = 0 THEN <<>>
    ELSE LET rest == ItemsUnder(text, n - 1, label, with_empty)
             line == text[n]
         IN  IF /\ line.k = "item" /\ line.n \in 1..3
                /\ LastLabel(text, n) = label
                /\ (with_empty \/ line.t # <<>>)
             THEN Append(rest, line.t)
             ELSE rest

ParsedText == ev.input.text

Parsed == ev.result[1]

\* C16: the section changes only on a line starting with a recognised
\* label; a numbered item line (starting "1.", "2." or "3.") is appended to
\* strengths iff the most recent label line was STRENGTHS:, to improvements
\* iff it was IMPROVEMENTS:, and to neither before any label or under
\* another section; the items are kept in line order.
C16_ItemLinesFollowLastLabel ==
    ev.pc = "parsed" =>
        /\ Parsed.strengths
             = ItemsUnder(ParsedText, Len(ParsedText), "STRENGTHS:", TRUE)
        /\ Parsed.improvements
             = ItemsUnder(ParsedText, Len(ParsedText), "IMPROVEMENTS:", TRUE)

\* C16 amended: the same for the item lines that have text after their
\* number; an item line with nothing after the number is appended nowhere.
C16_ItemLinesWithTextFollowLastLabel ==
    ev.pc = "parsed" =>
        /\ Parsed.strengths
             = ItemsUnder(ParsedText, Len(ParsedText), "STRENGTHS:", FALSE)
        /\ Parsed.improvements
             = ItemsUnder(ParsedText, Len(ParsedText), "IMPROVEMENTS:", FALSE)

\* An item under IMPROVEMENTS:, then a score line, then an item that is
\* dropped because the section has changed.
C16_Witness ==
    /\ ev.pc = "parsed"
    /\ ParsedText = <<Line("IMPROVEMENTS:", 0, <<>>), Line("item", 1, <<"a">>),
                      Line("OVERALL_SCORE:", 0, <<"9">>)>>
    /\ Parsed.improvements = <<(<<"a">>)>>
    /\ Parsed.strengths = <<>>

\* Whether line is a `label` line followed by a number.
NumericScoreLine(line, label) ==
    line.k = label /\ line.t # <<>> /\ line.t[1] \in DOMAIN FloatTable

\* The score the claim expects: the number on the last numeric `label`
\* line, the default when there is none.
ScoreFrom(text, label) ==
    LET at == {i \in 1..Len(text) : NumericScoreLine(text[i], label)}
    IN  IF at = {} THEN F(70)
        ELSE FloatTable[text[CHOOSE i \in at : \A j \in at : j <= i].t[1]]

\* C17: a line starting with the label SCORE: followed by a number sets
\* the score of the Evaluation to that number.
C17_ScoreLabelSetsScore ==
    (/\ ev.pc = "parsed"
     /\ \E i \in 1..Len(ParsedText) : NumericScoreLine(ParsedText[i], "SCORE:")
     /\ \A i \in 1..Len(ParsedText) : ParsedText[i].k # "OVERALL_SCORE:")
    => Parsed.score = ScoreFrom(ParsedText, "SCORE:")

\* C17 amended: the label is OVERALL_SCORE:. The score is the number on the
\* last line starting with OVERALL_SCORE: and followed by a number; a line
\* starting with SCORE: sets nothing.
C17_OverallScoreLabelSetsScore ==
    ev.pc = "parsed" => Parsed.score = ScoreFrom(ParsedText, "OVERALL_SCORE:")

C17_Witness ==
    /\ ev.pc = "parsed"
    /\ ParsedText = <<Line("SCORE:", 0, <<"9">>), Line("OVERALL_SCORE:", 0, <<"0.5">>)>>
    /\ Parsed.score = F(5)

\* The text the model returned for the initial evaluation of a /generate
\* request, once it has been parsed.
InitialEvaluationParsed ==
    /\ req.endpoint = "/generate"
    /\ req.evaluation # None
    /\ req.calls[2].outcome = "text"

RawEvaluation == req.evaluation[1].rawEvaluation

NoLabelLine(text) == \A i \in 1..Len(text) : text[i].k \notin RecognisedLabels

\* The text has a score line, and no score line of it carries a number.
ScoreLineNotNumeric(text) ==
    /\ \E i \in 1..Len(text) : text[i].k = "OVERALL_SCORE:"
    /\ \A i \in 1..Len(text) : ~NumericScoreLine(text[i], "OVERALL_SCORE:")

\* The draft is returned unchanged with status 200 and no optimization.
DraftReturnedUnchanged ==
    /\ req.strategy = "none"
    /\ GenerateAnswered(200)
    /\ Resp.body.content = req.initial_content
    /\ ~Resp.body.workflowInfo.optimizationPerformed
    /\ Resp.body.workflowInfo.optimizationType = "none"
    /\ Len(req.calls) = 2

\* C18: for an evaluation text without any recognised label line, or whose
\* score line carries a non-numeric value, the parser returns the defaults
\* (score 7.0, no strengths, no improvements, needsImprovement false), and
\* with the default thresholds generate_content decides "none" and returns
\* the initial draft unchanged with status 200.
C18_UnparsableEvaluationGivesDefaults ==
    (/\ InitialEvaluationParsed
     /\ NoLabelLine(RawEvaluation) \/ ScoreLineNotNumeric(RawEvaluation))
    => /\ req.evaluation[1].score = F(70)
       /\ req.evaluation[1].strengths = <<>>
       /\ req.evaluation[1].improvements = <<>>
       /\ ~req.evaluation[1].needsImprovement
       /\ content_agent = DefaultAgent => DraftReturnedUnchanged

\* C18 amended: without any recognised label line all the defaults are
\* returned, and under the default thresholds the draft is returned
\* unchanged; with a non-numeric score line the score is the default 7.0
\* while the other fields come from the other lines, and under the default
\* thresholds the decision is "none" (draft returned unchanged) when no
\* improvement was parsed and "targeted" otherwise.
C18_UnparsableScoreIsDefault ==
    InitialEvaluationParsed =>
        /\ NoLabelLine(RawEvaluation) =>
              /\ req.evaluation[1] =
                    [rawEvaluation |-> RawEvaluation, score |-> F(70),
                     criteriaScores |-> <<>>, strengths |-> <<>>,
                     improvements |-> <<>>, needsImprovement |-> FALSE,
                     optimizationGuidance |-> <<>>]
              /\ content_agent = DefaultAgent => DraftReturnedUnchanged
        /\ ScoreLineNotNumeric(RawEvaluation) =>
              /\ req.evaluation[1].score = F(70)
              /\ content_agent = DefaultAgent =>
                    IF req.evaluation[1].improvements = <<>>
                    THEN DraftReturnedUnchanged
                    ELSE req.strategy = "targeted"

\* An answer without labels (it has a SCORE: line and an item line) ended
\* in the draft returned unchanged.
C18_Witness ==
    /\ InitialEvaluationParsed
    /\ content_agent = DefaultAgent
    /\ \E i \in 1..Len(RawEvaluation) : RawEvaluation[i].k = "SCORE:"
    /\ DraftReturnedUnchanged

\* The larger of 0 and n.
AtLeastZero(n) == IF n < 0 THEN 0 ELSE n

\* Whether the lower-cased evaluation text contains "yes".
ContainsYes(evaluation) ==
    \E i \in 1..Len(evaluation) - 2 :
        /\ evaluation[i] \in {"y", "Y"}
        /\ evaluation[i + 1] \in {"e", "E"}
        /\ evaluation[i + 2] \in {"s", "S"}

\* At most max_iterations evaluations and improve calls; one trace entry
\* per evaluation that has returned, numbered 1, 2, ...; only the last
\* entry can hold an approving evaluation, and then the call has returned
\* the text of that entry.
LoopIsBoundedAndStopsAtFirstYes ==
    /\ loop.evaluations <= AtLeastZero(loop.max_iterations)
    /\ loop.improvements <= AtLeastZero(loop.max_iterations)
    /\ loop.pc # "done" => ENABLED LoopNext
    /\ Len(loop.history) = loop.evaluations - (IF loop.pc = "evaluate" THEN 1 ELSE 0)
    /\ \A k \in 1..Len(loop.history) :
          /\ loop.history[k].iteration = k
          /\ ContainsYes(loop.history[k].evaluation) =>
                /\ k = Len(loop.history)
                /\ loop.pc = "done"
                /\ loop.result[1].final_text = loop.history[k].text
                /\ loop.result[1].iterations = loop.history

\* C12: generate_with_feedback_loop always terminates, with at most
\* max_iterations evaluations and at most max_iterations improve calls;
\* the trace has one entry per evaluation performed, numbered 1, 2, ... in
\* order; the loop stops at the first evaluation whose text contains "yes"
\* and returns as final_text the text recorded in that last trace entry.
C12_LoopTerminatesBoundedAtFirstYes ==
    /\ []LoopIsBoundedAndStopsAtFirstYes
    /\ <>(loop.pc = "done")

\* The second evaluation approved ("Yes.") after one improve call.
C12_Witness ==
    /\ loop.pc = "done"
    /\ loop.max_iterations = 3
    /\ Len(loop.history) = 2
    /\ loop.history[2].evaluation = <<"Y", "e", "s", ".">>
    /\ loop.improvements = 1
    /\ loop.result[1].final_text = loop.history[2].text

\* The handler state that follows from a request's own inputs alone: the
\* route applied to its body, then each model outcome it was given, at the
\* position it was given at.
RECURSIVE Replay(_, _, _)
Replay(agent, r, outs) ==
    IF outs = <<>> THEN r
    ELSE IF Head(outs).at # r.pc THEN [r EXCEPT !.pc = "diverged"]
    ELSE Replay(agent, StepReturn(r, agent, Head(outs).o), Tail(outs))

OwnInputsDecide ==
    \A i \in Handlers :
        reqs[i].r.pc # "idle" =>
            reqs[i].r = Replay(content_agent,
                               Route(content_agent, reqs[i].endpoint, reqs[i].data),
                               reqs[i].outs)

\* C13: under any interleaving of concurrently handled /generate and
\* /evaluate requests, the decision and the response of each request
\* depend only on its own body, its own model outputs and the two
\* thresholds, and no handler writes the state the handlers share.
C13_RequestsDoNotInterfere ==
    /\ []OwnInputsDecide
    /\ [][content_agent' = content_agent]_vars

\* Two /generate requests in flight at once that took different paths:
\* one waits for its re-evaluation while the other is answered without
\* optimization.
C13_Witness ==
    /\ reqs[1].r.pc = "reevaluate"
    /\ reqs[1].r.strategy = "full"
    /\ reqs[2].r.pc = "done"
    /\ reqs[2].r.endpoint = "/generate"
    /\ reqs[2].r.resp[1].status = 200
    /\ reqs[2].r.strategy = "none"

\* The number of optimize calls made to the model so far.
OptimizeCalls == Cardinality({i \in 1..Len(req.calls) : req.calls[i].prompt = "optimize"})

\* C21: generate_content performs at most one optimization round and never
\* rolls back: optimizationIterations is 0 or 1, the re-evaluated score
\* never starts a further rewrite even when it is below the low threshold,
\* and when a rewrite was performed the content of the response is the
\* optimized variant, also when optimizedScore is lower than initialScore.
C21_OneRoundAndNoRollback ==
    /\ req.endpoint = "/generate" =>
          /\ OptimizeCalls <= 1
          /\ req.optimized_evaluation # None => req.pc = "done"
    /\ GenerateAnswered(200) =>
          /\ Resp.body.workflowInfo.optimizationIterations \in {0, 1}
          /\ Resp.body.workflowInfo.optimizationIterations = 1
                <=> Resp.body.workflowInfo.optimizationPerformed
          /\ Resp.body.workflowInfo.optimizationPerformed =>
                /\ Resp.body.content = req.optimized_content
                /\ Resp.body.content = Resp.body.optimizationDetails.optimizedContent
                /\ LastCall.prompt = "evaluate"
                /\ LastCall.content = req.optimized_content
                /\ Resp.body.optimizationDetails.evaluationComparison.optimizedScore
                     = req.optimized_evaluation[1].score

\* A targeted rewrite changed the draft, was re-evaluated below the low
\* threshold and below the initial score, and is the content returned.
C21_Witness ==
    /\ GenerateAnswered(200)
    /\ content_agent = DefaultAgent
    /\ Resp.body.workflowInfo.optimizationPerformed
    /\ req.evaluation[1].score = F(84)
    /\ req.optimized_evaluation[1].score = F(69)
    /\ Resp.body.optimizationDetails.evaluationComparison.scoreDifference = F(-15)
    /\ Resp.body.content # req.initial_content
    /\ Resp.body.content = req.optimized_content
    /\ OptimizeCalls = 1

\* C22: in every successful generate_content response evaluationScore is
\* the score of the evaluation of the content returned (the re-evaluation
\* when a rewrite was performed, the initial evaluation otherwise), while
\* evaluationDetails and suggestions always come from the initial
\* evaluation of the first draft.
C22_ScoreOfReturnedContentDetailsOfDraft ==
    GenerateAnswered(200) =>
        LET performed == Resp.body.workflowInfo.optimizationPerformed
            initial == req.evaluation[1]
        IN  /\ Resp.body.workflowInfo.evaluationScore
                 = IF performed THEN req.optimized_evaluation[1].score
                   ELSE initial.score
            /\ performed =>
                  /\ req.calls[Len(req.calls)].content = Resp.body.content
                  /\ Resp.body.workflowInfo.evaluationScore
                       = Resp.body.optimizationDetails.evaluationComparison.optimizedScore
            /\ ~performed => req.calls[2].content = Resp.body.content
            /\ Resp.body.evaluationDetails =
                  [criteriaScores |-> initial.criteriaScores,
                   strengths |-> initial.strengths,
                   improvements |-> initial.improvements]
            /\ Resp.body.suggestions = _generate_suggestions(initial, performed)

\* The rewritten content was re-evaluated at 9 without improvements; the
\* response reports score 9 next to the two improvements found in the
\* draft.
C22_Witness ==
    /\ GenerateAnswered(200)
    /\ Resp.body.workflowInfo.optimizationPerformed
    /\ req.evaluation[1].score = F(69)
    /\ Len(req.evaluation[1].improvements) = 2
    /\ req.optimized_evaluation[1].improvements = <<>>
    /\ Resp.body.workflowInfo.evaluationScore = F(90)
    /\ Len(Resp.body.evaluationDetails.improvements) = 2

LoopResult == loop.result[1]

\* The call has returned after the loop, no evaluation having approved.
Exhausted == loop.pc = "done" /\ "note" \in DOMAIN LoopResult

\* What holds of every result apart from the place of final_text in the
\* trace: the note is present iff no evaluation approved; on exhaustion as
\* many evaluations as improve calls were made, max_iterations of each
\* (none when max_iterations <= 0), every trace entry was written before
\* the last improve call, and final_text is the text that call (or, with
\* no call, the initial generation) returned.
LoopResultOnExhaustion ==
    loop.pc = "done" =>
        /\ "note" \in DOMAIN LoopResult
              <=> \A k \in 1..Len(loop.history) :
                      ~ContainsYes(loop.history[k].evaluation)
        /\ Exhausted =>
              /\ LoopResult.note = "Returned after max iterations"
              /\ loop.evaluations = AtLeastZero(loop.max_iterations)
              /\ loop.improvements = loop.evaluations
              /\ Len(loop.history) = loop.evaluations
              /\ LoopResult.iterations = loop.history
              /\ LoopResult.final_text = loop.current_text
        /\ loop.max_iterations <= 0 =>
              /\ Exhausted
              /\ loop.evaluations = 0 /\ loop.improvements = 0
              /\ LoopResult.iterations = <<>>

\* C23: when generate_with_feedback_loop exhausts max_iterations without an
\* approving evaluation the result carries the note "Returned after max
\* iterations" and final_text is the output of the last improve call, a
\* text that was never evaluated and appears in no trace entry; the note
\* is present iff no evaluation approved; with max_iterations <= 0 nothing
\* is evaluated or improved, the trace is empty and final_text is the
\* initial draft.
C23_ExhaustedTextIsInNoTraceEntry ==
    /\ LoopResultOnExhaustion
    /\ Exhausted =>
          \A k \in 1..Len(loop.history) :
              loop.history[k].text # LoopResult.final_text

\* C23 amended: the same, except that the output of the last improve call
\* was passed to no evaluation and recorded by no trace entry as such; as a
\* string it may equal a text of the trace.
C23_ExhaustedTextWasNotEvaluated ==
    /\ []LoopResultOnExhaustion
    /\ [][(loop.pc = "improve" /\ loop'.pc = "done") =>
              /\ loop'.history = loop.history
              /\ loop'.evaluations = loop.evaluations
              /\ loop'.result[1].final_text = loop'.current_text]_vars

\* Two iterations without approval; the last improve call returned the
\* string the first iteration had evaluated.
C23_Witness ==
    /\ Exhausted
    /\ loop.max_iterations = 2
    /\ Len(loop.history) = 2
    /\ loop.history[1].text = "draft"
    /\ loop.history[2].text = "better"
    /\ LoopResult.final_text = "draft"

\* Whether text has a NEEDS_OPTIMIZATION line and the last one reads YES.
LastNeedsReadsYes(text) ==
    LET at == {i \in 1..Len(text) : text[i].k = "NEEDS_OPTIMIZATION:"}
    IN  /\ at # {}
        /\ text[CHOOSE i \in at : \A j \in at : j <= i].t = <<"YES">>

\* The rule of the claim on an Evaluation e the parser returned.
NeedsImprovementRule(e) ==
    /\ FloatLt(e.score, F(70)) => e.needsImprovement
    /\ FloatLe(F(70), e.score) =>
          (e.needsImprovement <=> LastNeedsReadsYes(e.rawEvaluation))

====
